---- MODULE Spec2Model ----
(***************************************************************************)
(* A model of pyff, the semantic differ for Python modules: the statement  *)
(* comparator with its import canonicalizer (pyff/statements.py), the      *)
(* function comparator (pyff/functions.py), the structural comparison      *)
(* (pyff/kitchensink.py) and the module comparator (pyff/modules.py).      *)
(*                                                                         *)
(* An AST node is a record [kind, id, kids, lineno]: kind is the node      *)
(* class, id its one scalar field (Name.id, Attribute.attr, Constant.value,*)
(* the operator of a BinOp), kids its child nodes in field order, lineno   *)
(* its source position.  A dotted name "a.b.c" is the sequence             *)
(* <<"a","b","c">>: identifiers hold no dot, so f"{p}.{attr}" is Append.   *)
(***************************************************************************)
EXTENDS Integers, Sequences, FiniteSets, TLC

VARIABLES old, new, old_imports, new_imports, options, result, pc

vars == <<old, new, old_imports, new_imports, options, result, pc>>

(***************************************************************************)
(* AST nodes                                                               *)
(***************************************************************************)
Node(kind, id, kids, lineno) ==
    [kind |-> kind, id |-> id, kids |-> kids, lineno |-> lineno]

\* Python's None where a node is optional (FunctionDef.returns).
NoneNode == Node("NoneType", "", <<>>, 0)

Name(id) == Node("Name", id, <<>>, 1)
Attribute(value, attr) == Node("Attribute", attr, <<value>>, 1)
Constant(v) == Node("Constant", v, <<>>, 1)
Call(func, args) == Node("Call", "", <<func>> \o args, 1)
BinOp(op, l, r) == Node("BinOp", op, <<l, r>>, 1)
Return(value) == Node("Return", "", <<value>>, 1)
Expr(value) == Node("Expr", "", <<value>>, 1)

\* The values of the model's string constants; any other Constant is a number.
StrValues == {"", "a", "b"}

\* The node with every source position erased.
RECURSIVE StripLines(_)
StripLines(node) ==
    [node EXCEPT !.lineno = 0,
                 !.kids = [i \in DOMAIN node.kids |-> StripLines(node.kids[i])]]

\* ast.dump with include_attributes: the source positions stay in the dump.
dump_with_positions(node) == node

\* ast.dump(node): the structure of the node, source positions left out
\* (include_attributes is False).
dump(node) == StripLines(node)

\* kitchensink.compare_ast on two nodes (or None): same class, and every field
\* but the source positions equal, lists compared by length and then pairwise.
RECURSIVE compare_ast(_, _)
compare_ast(node1, node2) ==
    IF node1.kind # node2.kind THEN FALSE
    ELSE /\ node1.id = node2.id
         /\ Len(node1.kids) = Len(node2.kids)
         /\ \A i \in DOMAIN node1.kids : compare_ast(node1.kids[i], node2.kids[i])

\* compare_ast on two lists without the comparison of their lengths: the
\* elements are zipped, what the longer list has beyond the shorter is dropped.
compare_ast_list_zip(list1, list2) ==
    \A i \in DOMAIN list1 \cap DOMAIN list2 : compare_ast(list1[i], list2[i])

\* compare_ast on two lists of nodes (decorator_list).
compare_ast_list(list1, list2) ==
    /\ Len(list1) = Len(list2)
    /\ \A i \in DOMAIN list1 : compare_ast(list1[i], list2[i])

(***************************************************************************)
(* Imported names (pyff/imports.py)                                        *)
(***************************************************************************)
\* An import statement of a module: "import a.b.c [as d]" is
\* [from |-> <<>>, name |-> <<a,b,c>>, asname |-> d or ""], and
\* "from a.b import c [as d]" is [from |-> <<a,b>>, name |-> <<c>>, asname].
Import(name, asname) == [from |-> <<>>, name |-> name, asname |-> asname]
ImportFrom(module, name, asname) == [from |-> module, name |-> <<name>>, asname |-> asname]

\* The local name an import statement binds.
local_name(imp) == IF imp.asname # "" THEN imp.asname ELSE imp.name[1]

\* The dotted path the bound name refers to.
canonical_name(imp) == imp.from \o imp.name

Put(d, k, v) == [x \in DOMAIN d \cup {k} |-> IF x = k THEN v ELSE d[x]]

EmptyDict == [x \in {} |-> <<>>]

\* ImportedNames.extract: local name -> canonical name, a later import of the
\* same local name replacing an earlier one.
RECURSIVE extract(_)
extract(imports) ==
    IF imports = <<>> THEN EmptyDict
    ELSE LET n == Len(imports)
         IN Put(extract(SubSeq(imports, 1, n - 1)),
                local_name(imports[n]), canonical_name(imports[n]))

\* ImportedName.canonical_ast: the canonical name as nested attribute access.
RECURSIVE canonical_ast(_)
canonical_ast(parts) ==
    IF Len(parts) = 1 THEN Name(parts[1])
    ELSE Attribute(canonical_ast(SubSeq(parts, 1, Len(parts) - 1)), parts[Len(parts)])

(***************************************************************************)
(* pyff/statements.py                                                      *)
(***************************************************************************)
\* Python's None as a result.
None == [tag |-> "None"]

\* FullyQualifyNames.__init__: no substitution, no reference, _current None
\* (the empty dotted name stands for None).
FullyQualifyNames == [substitutions |-> EmptyDict, references |-> EmptyDict, current |-> <<>>]

\* FullyQualifyNames.visit_Name on a Name node, from visitor state st.
visit_Name(node, st, external_names) ==
    IF node.id \in DOMAIN external_names
    THEN LET canonical == external_names[node.id]
             refs == Put(st.references, canonical, <<node.id>>)
         IN IF <<node.id>> = canonical
            THEN [node |-> node,
                  st |-> [st EXCEPT !.current = canonical, !.references = refs]]
            ELSE [node |-> canonical_ast(canonical),
                  st |-> [substitutions |-> Put(st.substitutions, node.id, canonical),
                          references |-> refs,
                          current |-> canonical]]
    ELSE [node |-> node, st |-> [st EXCEPT !.current = <<>>]]

\* The second half of FullyQualifyNames.visit_Attribute, after generic_visit:
\* extend the current canonical prefix by the attribute.
extend_Attribute(node, st) ==
    IF st.current # <<>>
    THEN LET prefix == st.current
             current == Append(prefix, node.id)
             key == st.references[prefix]
         IN [st EXCEPT !.current = current,
                       !.references = Put(st.references, current, Append(key, node.id))]
    ELSE st

\* NodeTransformer.visit: visit_Name for a Name, visit_Attribute for an
\* Attribute, generic_visit (the children in field order, each replaced by
\* what its visit returns) for any other node.
RECURSIVE FQ_visit(_, _, _), FQ_generic_visit(_, _, _, _), FQ_field_visited(_, _, _, _)
\* generic_visit from field i on; r is what the visit of field i returned: the
\* field is replaced by the node returned.
FQ_field_visited(node, i, r, external_names) ==
    FQ_generic_visit([node EXCEPT !.kids[i] = r.node], i + 1, r.st, external_names)

FQ_generic_visit(node, i, st, external_names) ==
    IF i > Len(node.kids) THEN [node |-> node, st |-> st]
    ELSE FQ_field_visited(node, i, FQ_visit(node.kids[i], st, external_names), external_names)

\* visit_Attribute on r, what generic_visit returned for the Attribute node.
visit_Attribute(r) == [node |-> r.node, st |-> extend_Attribute(r.node, r.st)]

FQ_visit(node, st, external_names) ==
    IF node.kind = "Name" THEN visit_Name(node, st, external_names)
    ELSE IF node.kind = "Attribute"
    THEN visit_Attribute(FQ_generic_visit(node, 1, st, external_names))
    ELSE FQ_generic_visit(node, 1, st, external_names)

SingleExternalNameUsageChange(o, n) == [old |-> o, new |-> n]

\* The set `changes` find_external_name_matches builds from the two fully
\* qualified statements and their transformers; the empty set when the fully
\* qualified statements still differ.
cross_matches(fq_old, fq_new) ==
       IF dump(fq_old.node) = dump(fq_new.node)
       THEN { SingleExternalNameUsageChange(<<original>>,
                  fq_new.st.references[fq_old.st.substitutions[original]]) :
                original \in { o \in DOMAIN fq_old.st.substitutions :
                    fq_old.st.substitutions[o] \in DOMAIN fq_new.st.references } }
            \cup
            { SingleExternalNameUsageChange(
                  fq_old.st.references[fq_new.st.substitutions[original]], <<original>>) :
                original \in { o \in DOMAIN fq_new.st.substitutions :
                    fq_new.st.substitutions[o] \in DOMAIN fq_old.st.references } }
       ELSE {}

external_name_changes(old_st, new_st, oi, ni) ==
    cross_matches(FQ_visit(old_st, FullyQualifyNames, oi),
                  FQ_visit(new_st, FullyQualifyNames, ni))

\* `ExternalNameUsageChange(changes) if changes else None`
ExternalNameUsageChange(changes) ==
    IF changes # {} THEN [tag |-> "ExternalNameUsageChange", changes |-> changes]
    ELSE None

\* find_external_name_matches: None for identical statements and for an empty
\* set of changes, an ExternalNameUsageChange otherwise.
find_external_name_matches(old_st, new_st, oi, ni) ==
    IF dump(old_st) = dump(new_st) THEN None
    ELSE ExternalNameUsageChange(external_name_changes(old_st, new_st, oi, ni))

\* StatementPyfference.__init__
StatementPyfference ==
    [tag |-> "StatementPyfference", semantically_relevant |-> {}, semantically_irrelevant |-> {}]

\* semantically_different that looks at the relevant changes only
semantically_different_relevant_only(p) == p.semantically_relevant # {}

semantically_different(p) ==
    p.semantically_relevant # {} \/ ~(p.semantically_irrelevant # {})

is_specific(p) ==
    p.semantically_relevant # {} \/ p.semantically_irrelevant # {}

\* StatementPyfference.add_semantically_relevant_change
add_semantically_relevant_change(p, change) ==
    [p EXCEPT !.semantically_relevant = @ \cup {change}]

\* StatementPyfference.add_semantically_irrelevant_change on any
\* StatementPyfference
add_irrelevant_change(p, change) ==
    [p EXCEPT !.semantically_irrelevant = @ \cup {change}]

\* pyff_statement that reports nothing but changes of external names: a
\* change no import explains gives None.
pyff_statement_alias_only(old_statement, new_statement, oi, ni) ==
    LET change == find_external_name_matches(old_statement, new_statement, oi, ni)
    IN IF change # None
       THEN [StatementPyfference EXCEPT !.semantically_irrelevant = {change}]
       ELSE None

\* `if change:` that adds the change to the relevant ones.
add_change_as_relevant(change) ==
    IF change # None
    THEN [StatementPyfference EXCEPT !.semantically_relevant = {change}]
    ELSE StatementPyfference

\* `if change: pyfference.add_semantically_irrelevant_change(change)` on a new
\* StatementPyfference
add_semantically_irrelevant_change(change) ==
    IF change # None
    THEN [StatementPyfference EXCEPT !.semantically_irrelevant = {change}]
    ELSE StatementPyfference

\* pyff_statement
pyff_statement(old_statement, new_statement, oi, ni) ==
    IF dump(old_statement) = dump(new_statement) THEN None
    ELSE add_semantically_irrelevant_change(
             find_external_name_matches(old_statement, new_statement, oi, ni))

(***************************************************************************)
(* pyff/functions.py                                                       *)
(***************************************************************************)
\* ast.FunctionDef
FunctionDef(name, decorator_list, args, returns, body, lineno) ==
    [kind |-> "FunctionDef", name |-> name, decorator_list |-> decorator_list,
     args |-> args, returns |-> returns, body |-> body, lineno |-> lineno]

\* FunctionSummary.__init__
FunctionSummary(name, node) == [name |-> name, node |-> node]

\* ast.get_docstring(node): <<>> (None) unless the first statement of the body
\* is an expression statement of a string constant, else <<its text>> (the
\* model's docstrings are single words or empty, which cleaning leaves alone).
get_docstring(node) ==
    IF /\ node.body # <<>>
       /\ node.body[1].kind = "Expr"
       /\ node.body[1].kids[1].kind = "Constant"
       /\ node.body[1].kids[1].id \in StrValues
    THEN <<node.body[1].kids[1].id>>
    ELSE <<>>

\* Python's truth value of what get_docstring returns: None and "" are false.
truthy(docstring) == docstring # <<>> /\ docstring[1] # ""

\* The three kinds of implementation change.
FunctionImplementationChange == [tag |-> "FunctionImplementationChange"]
ExternalUsageChange(gone, appeared) ==
    [tag |-> "ExternalUsageChange", gone |-> gone, appeared |-> appeared]
StatementChange(change) == [tag |-> "StatementChange", change |-> change]

\* __hash__ of an implementation change: the hash of its class's name.
change_hash(c) == c.tag

\* __eq__ between two implementation changes of equal hash (of one class):
\* ExternalUsageChange compares gone and appeared; StatementChange inherits
\* FunctionImplementationChange.__eq__, an isinstance test.
change_eq(a, b) ==
    IF a.tag = "ExternalUsageChange"
    THEN a.gone = b.gone /\ a.appeared = b.appeared
    ELSE TRUE

\* set.add: the set keeps its element when an equal one of the same hash is in it.
set_add(s, c) ==
    IF \E e \in s : change_hash(e) = change_hash(c) /\ change_eq(e, c)
    THEN s
    ELSE s \cup {c}

\* FunctionPyfferenceRecorder.__init__ (old_name <<>> is None)
FunctionPyfferenceRecorder(name) == [name |-> name, old_name |-> <<>>, implementation |-> {}]

name_changed(rec, old_name) == [rec EXCEPT !.old_name = <<old_name>>]

implementation_changed(rec, change) ==
    [rec EXCEPT !.implementation = set_add(rec.implementation, change)]

\* build that returns a FunctionPyfference even when nothing was recorded.
build_always(rec) ==
    [tag |-> "FunctionPyfference", name |-> rec.name, old_name |-> rec.old_name,
     implementation |-> rec.implementation]

\* `if condition: difference_recorder.implementation_changed(change)`
changed_if(rec, condition, change) ==
    IF condition THEN implementation_changed(rec, change) ELSE rec

\* `if import_usage_change: difference_recorder.implementation_changed(...)`
usage_changed(rec, usage) == changed_if(rec, usage # None, usage)

\* FunctionPyfferenceRecorder.build
build(rec) ==
    IF rec.old_name = <<>> /\ rec.implementation = {} THEN None
    ELSE [tag |-> "FunctionPyfference", name |-> rec.name, old_name |-> rec.old_name,
          implementation |-> rec.implementation]

\* ExternalNamesExtractor: the visitor state is [names, in_progress], in_progress
\* <<>> for None; generic_visit walks the children in field order.
\* ExternalNamesExtractor.visit_Attribute after generic_visit, r the visitor
\* state then.
EX_extend(node, r, imported_names) ==
    LET in_progress == Append(r.in_progress, node.id)
    IN IF r.in_progress # <<>>
       THEN IF in_progress \in {<<k>> : k \in DOMAIN imported_names}
            THEN [names |-> r.names \cup {in_progress}, in_progress |-> <<>>]
            ELSE [names |-> r.names, in_progress |-> in_progress]
       ELSE r

RECURSIVE EX_visit(_, _, _), EX_generic_visit(_, _, _, _)
EX_generic_visit(node, i, st, imported_names) ==
    IF i > Len(node.kids) THEN st
    ELSE EX_generic_visit(node, i + 1, EX_visit(node.kids[i], st, imported_names),
                          imported_names)

EX_visit(node, st, imported_names) ==
    IF node.kind = "Name"
    THEN IF node.id \in DOMAIN imported_names
         THEN [names |-> st.names \cup {<<node.id>>}, in_progress |-> <<>>]
         ELSE [names |-> st.names, in_progress |-> <<node.id>>]
    ELSE IF node.kind = "Attribute"
    THEN EX_extend(node,
                   EX_generic_visit(node, 1, [st EXCEPT !.in_progress = <<>>], imported_names),
                   imported_names)
    ELSE EX_generic_visit(node, 1, st, imported_names)

\* The names one walker collects over the statements of a body.
RECURSIVE walk_body(_, _, _)
walk_body(body, st, imported_names) ==
    IF body = <<>> THEN st
    ELSE walk_body(Tail(body), EX_visit(Head(body), st, imported_names), imported_names)

used_names(node, imported_names) ==
    walk_body(node.body, [names |-> {}, in_progress |-> <<>>], imported_names).names

\* The end of compare_import_usage with `if appeared:` in place of
\* `if appeared or gone:`.
usage_change_appeared_only(first, second) ==
    IF second \ first # {}
    THEN ExternalUsageChange(first \ second, second \ first)
    ELSE None

\* The end of compare_import_usage, from the names the two walkers collected.
usage_change(first, second) ==
    LET appeared == second \ first
        gone == first \ second
    IN IF appeared # {} \/ gone # {}
       THEN ExternalUsageChange(gone, appeared)
       ELSE None

\* compare_import_usage
compare_import_usage(old_node, new_node, oi, ni) ==
    usage_change(used_names(old_node, oi), used_names(new_node, ni))

\* The body of a function as pyff_function walks it: a copy of node.body, its
\* first statement popped when docstrings are not checked and the function
\* has a docstring that is true.
walked_body(node, check_docstrings) ==
    IF ~check_docstrings /\ truthy(get_docstring(node))
    THEN Tail(node.body)
    ELSE node.body

\* The body of the zip_longest loop for two statements, change being what
\* pyff_statement returned for them.
statement_changed(rec, change) ==
    IF change = None THEN rec
    ELSE IF is_specific(change)
    THEN implementation_changed(rec, StatementChange(change))
    ELSE implementation_changed(rec, FunctionImplementationChange)

\* The loop with zip in place of zip_longest: it ends with the shorter body
\* and records nothing for the statements the longer one has left.
RECURSIVE walk_statements_zip(_, _, _, _, _, _)
walk_statements_zip(rec, old_body, new_body, i, oi, ni) ==
    IF i > Len(old_body) \/ i > Len(new_body) THEN rec
    ELSE walk_statements_zip(
             statement_changed(rec, pyff_statement(old_body[i], new_body[i], oi, ni)),
             old_body, new_body, i + 1, oi, ni)

\* The zip_longest loop of pyff_function from position i on.
RECURSIVE walk_statements(_, _, _, _, _, _)
walk_statements(rec, old_body, new_body, i, oi, ni) ==
    IF i > Len(old_body) /\ i > Len(new_body) THEN rec
    ELSE IF i > Len(old_body) \/ i > Len(new_body)
    THEN implementation_changed(rec, FunctionImplementationChange)
    ELSE walk_statements(
             statement_changed(rec, pyff_statement(old_body[i], new_body[i], oi, ni)),
             old_body, new_body, i + 1, oi, ni)

\* pyff_function that compares the return annotation and the arguments
\* whatever check_typing says.
pyff_function_typing_always(o, n, oi, ni, check_typing, check_docstrings) ==
    LET r0 == FunctionPyfferenceRecorder(n.name)
        r1 == IF o.name # n.name THEN name_changed(r0, o.name) ELSE r0
        r2 == changed_if(r1, ~compare_ast_list(o.node.decorator_list, n.node.decorator_list),
                         FunctionImplementationChange)
        r3 == changed_if(r2, ~compare_ast(o.node.returns, n.node.returns),
                         FunctionImplementationChange)
        r4 == changed_if(r3, ~compare_ast(o.node.args, n.node.args),
                         FunctionImplementationChange)
        r5 == walk_statements(r4, walked_body(o.node, check_docstrings),
                              walked_body(n.node, check_docstrings), 1, oi, ni)
        r6 == usage_changed(r5, compare_import_usage(o.node, n.node, oi, ni))
    IN build(r6)

\* pyff_function(old, new, old_imports, new_imports, check_typing=, check_docstrings=)
pyff_function(o, n, oi, ni, check_typing, check_docstrings) ==
    LET r0 == FunctionPyfferenceRecorder(n.name)
        r1 == IF o.name # n.name THEN name_changed(r0, o.name) ELSE r0
        old_body == walked_body(o.node, check_docstrings)
        new_body == walked_body(n.node, check_docstrings)
        r2 == changed_if(r1, ~compare_ast_list(o.node.decorator_list, n.node.decorator_list),
                         FunctionImplementationChange)
        r3 == changed_if(r2, check_typing /\ ~compare_ast(o.node.returns, n.node.returns),
                         FunctionImplementationChange)
        r4 == changed_if(r3, check_typing /\ ~compare_ast(o.node.args, n.node.args),
                         FunctionImplementationChange)
        r5 == walk_statements(r4, old_body, new_body, 1, oi, ni)
        r6 == usage_changed(r5, compare_import_usage(o.node, n.node, oi, ni))
    IN build(r6)

\* A FunctionsExtractor without visit_ClassDef: the visitor enters the classes
\* and saves their methods like top-level functions.
RECURSIVE FunctionsExtractor_with_methods(_)
FunctionsExtractor_with_methods(body) ==
    IF body = <<>> THEN EmptyDict
    ELSE LET n == Len(body)
             functions == FunctionsExtractor_with_methods(SubSeq(body, 1, n - 1))
             methods == IF body[n].kind = "ClassDef"
                        THEN FunctionsExtractor_with_methods(body[n].body)
                        ELSE EmptyDict
         IN IF body[n].kind = "FunctionDef"
            THEN Put(functions, body[n].name, FunctionSummary(body[n].name, body[n]))
            ELSE [f \in DOMAIN functions \cup DOMAIN methods |->
                     IF f \in DOMAIN methods THEN methods[f] ELSE functions[f]]

\* FunctionsExtractor over the statements of a module or class body: name ->
\* FunctionSummary of the function definitions, a later definition of a name
\* replacing an earlier one; classes are not entered.
RECURSIVE FunctionsExtractor(_)
FunctionsExtractor(body) ==
    IF body = <<>> THEN EmptyDict
    ELSE LET n == Len(body)
             functions == FunctionsExtractor(SubSeq(body, 1, n - 1))
         IN IF body[n].kind = "FunctionDef"
            THEN Put(functions, body[n].name, FunctionSummary(body[n].name, body[n]))
            ELSE functions

\* The entries of a dict that are not None (`if difference:` before the entry
\* is stored).
not_none(d) == [k \in {j \in DOMAIN d : d[j] # None} |-> d[k]]

\* The `differences` dict with an entry for every function of both sides,
\* identical or not.
differences_unfiltered(old_functions, new_functions, oi, ni) ==
    [f \in DOMAIN old_functions \cap DOMAIN new_functions |->
        pyff_function(old_functions[f], new_functions[f], oi, ni, TRUE, FALSE)]

\* The `differences` dict of pyff_functions: the functions of both sides whose
\* pyff_function is not None.
differences(old_functions, new_functions, oi, ni) ==
    LET both == DOMAIN old_functions \cap DOMAIN new_functions
        difference(f) == pyff_function(old_functions[f], new_functions[f], oi, ni, TRUE, FALSE)
    IN not_none([f \in both |-> difference(f)])

\* new_names without the subtraction of the old names.
new_names_all(old_functions, new_functions) == DOMAIN new_functions

new_names(old_functions, new_functions) == DOMAIN new_functions \ DOMAIN old_functions

removed_names(old_functions, new_functions) == DOMAIN old_functions \ DOMAIN new_functions

\* The end of pyff_functions: a FunctionsPyfference when one of the three dicts
\* is not empty, None otherwise.
FunctionsPyfference(removed, changed, new_) ==
    IF DOMAIN changed # {} \/ DOMAIN new_ # {} \/ DOMAIN removed # {}
    THEN [tag |-> "FunctionsPyfference", removed |-> removed, changed |-> changed,
          new |-> new_]
    ELSE None

\* pyff_functions(old, new, old_imports, new_imports) on two bodies
pyff_functions(old_body, new_body, oi, ni) ==
    LET old_functions == FunctionsExtractor(old_body)
        new_functions == FunctionsExtractor(new_body)
    IN FunctionsPyfference(
           [f \in removed_names(old_functions, new_functions) |-> old_functions[f]],
           differences(old_functions, new_functions, oi, ni),
           [f \in new_names(old_functions, new_functions) |-> new_functions[f]])

\* The functions dict of one FunctionsExtractor with its insertion order, as
\* dict.popitem reads it: a sequence of <<name, FunctionSummary>>, an assignment
\* to a name already there keeping the name's place.
dict_set(items, k, v) ==
    IF \E i \in DOMAIN items : items[i][1] = k
    THEN [i \in DOMAIN items |-> IF items[i][1] = k THEN <<k, v>> ELSE items[i]]
    ELSE Append(items, <<k, v>>)

\* extractor.visit(ast.parse(code)) on an extractor that holds `functions`.
RECURSIVE extractor_visit(_, _)
extractor_visit(functions, body) ==
    IF body = <<>> THEN functions
    ELSE extractor_visit(
             IF Head(body).kind = "FunctionDef"
             THEN dict_set(functions, Head(body).name,
                           FunctionSummary(Head(body).name, Head(body)))
             ELSE functions,
             Tail(body))

\* raise ValueError(msg)
ValueError(msg) == [tag |-> "ValueError", msg |-> msg]

\* pyff_function_code after the old summary was popped: `functions` is what the
\* extractor holds after the visit of the new code.
pop_new_summary(old_summary, functions, oi, ni) ==
    IF functions = <<>>
    THEN ValueError("Old module does not seem to contain exactly one function code")
    ELSE pyff_function(old_summary, functions[Len(functions)][2], oi, ni, TRUE, FALSE)

\* pyff_function_code after the visit of the old code: popitem takes the item
\* inserted last and leaves the others in the extractor, which then visits
\* the new code.
pop_old_summary(functions, new_body, oi, ni) ==
    IF functions = <<>>
    THEN ValueError("Old module does not seem to contain exactly one function code")
    ELSE pop_new_summary(functions[Len(functions)][2],
                         extractor_visit(SubSeq(functions, 1, Len(functions) - 1), new_body),
                         oi, ni)

\* pyff_function_code(old, new, old_imports, new_imports) on the parsed code
pyff_function_code(old_body, new_body, oi, ni) ==
    pop_old_summary(extractor_visit(<<>>, old_body), new_body, oi, ni)

(***************************************************************************)
(* pyff/imports.py and pyff/classes.py, as the specification describes     *)
(* them, and pyff/modules.py                                               *)
(***************************************************************************)
\* A module: its import statements and the other statements of its body
\* (function definitions, class definitions, assignments), each in order.
Module(imports, body) == [imports |-> imports, body |-> body]

\* ast.ClassDef
ClassDef(name, bases, body) ==
    [kind |-> "ClassDef", name |-> name, bases |-> bases, body |-> body]

\* pyff_imports: the local names bound on one side only; None when there is none.
pyff_imports(old_module, new_module) ==
    LET old_names == DOMAIN extract(old_module.imports)
        new_names_ == DOMAIN extract(new_module.imports)
    IN IF old_names = new_names_ THEN None
       ELSE [tag |-> "ImportsPyfference", removed_imports |-> old_names \ new_names_,
             new_imports |-> new_names_ \ old_names]

\* The top-level class definitions of a body, name -> ClassDef.
RECURSIVE ClassesExtractor(_)
ClassesExtractor(body) ==
    IF body = <<>> THEN EmptyDict
    ELSE LET n == Len(body)
             classes == ClassesExtractor(SubSeq(body, 1, n - 1))
         IN IF body[n].kind = "ClassDef" THEN Put(classes, body[n].name, body[n])
            ELSE classes

\* The difference of one class present on both sides: its methods' diff and
\* whether its base classes changed; None when neither does.
ClassPyfference(methods, bases_changed) ==
    IF methods = None /\ ~bases_changed THEN None
    ELSE [tag |-> "ClassPyfference", methods |-> methods, bases_changed |-> bases_changed]

pyff_class(old_class, new_class, oi, ni) ==
    ClassPyfference(pyff_functions(old_class.body, new_class.body, oi, ni),
                    ~compare_ast_list(old_class.bases, new_class.bases))

\* pyff_classes: the classes partitioned by name into new, removed and changed.
ClassesPyfference(removed, changed, new_) ==
    IF DOMAIN changed # {} \/ new_ # {} \/ removed # {}
    THEN [tag |-> "ClassesPyfference", removed |-> removed, changed |-> changed, new |-> new_]
    ELSE None

pyff_classes(old_body, new_body, oi, ni) ==
    LET old_classes == ClassesExtractor(old_body)
        new_classes == ClassesExtractor(new_body)
        both == DOMAIN old_classes \cap DOMAIN new_classes
        difference(c) == pyff_class(old_classes[c], new_classes[c], oi, ni)
    IN ClassesPyfference(DOMAIN old_classes \ DOMAIN new_classes,
                         not_none([c \in both |-> difference(c)]),
                         DOMAIN new_classes \ DOMAIN old_classes)

\* pyff_module without the test of the three diffs: a ModulePyfference is
\* returned whatever they are.
ModulePyfference_always(imports, classes, functions) ==
    [tag |-> "ModulePyfference", imports |-> imports, classes |-> classes,
     functions |-> functions]

\* The end of pyff_module: a ModulePyfference when one of the three diffs is
\* not None, None otherwise.
ModulePyfference(imports, classes, functions) ==
    IF imports # None \/ classes # None \/ functions # None
    THEN [tag |-> "ModulePyfference", imports |-> imports, classes |-> classes,
          functions |-> functions]
    ELSE None

\* pyff_module
pyff_module(old_module, new_module) ==
    LET oi == extract(old_module.imports)
        ni == extract(new_module.imports)
    IN ModulePyfference(pyff_imports(old_module, new_module),
                        pyff_classes(old_module.body, new_module.body, oi, ni),
                        pyff_functions(old_module.body, new_module.body, oi, ni))

(***************************************************************************)
(* The inputs: parsed source                                               *)
(***************************************************************************)
\* The longest function body pyff_function is tried on, in statements after
\* the docstring.
MaxBody == 2

\* A node and its descendants placed on source line l (None has no position).
RECURSIVE SetLine(_, _)
SetLine(node, l) ==
    IF node.kind = "NoneType" THEN node
    ELSE [node EXCEPT !.lineno = l,
                      !.kids = [i \in DOMAIN node.kids |-> SetLine(node.kids[i], l)]]

\* What the parser returns for a function definition whose first decorator (or
\* whose def line, without decorators) is on line l: one decorator per line,
\* the signature on the def line, one statement per line below it.
parse_function(name, decorators, args, returns, body, l) ==
    LET k == Len(decorators)
    IN FunctionDef(name,
                   [i \in DOMAIN decorators |-> SetLine(decorators[i], l + i - 1)],
                   SetLine(args, l + k), SetLine(returns, l + k),
                   [i \in DOMAIN body |-> SetLine(body[i], l + k + i)],
                   l + k)

\* Source text, before parsing: a function definition, a class definition
\* with its methods, an assignment.
def_src(name, decorators, args, returns, body) ==
    [kind |-> "def", name |-> name, decorators |-> decorators, args |-> args,
     returns |-> returns, body |-> body]
class_src(name, bases, methods) ==
    [kind |-> "class", name |-> name, bases |-> bases, methods |-> methods]
assign_src(target, value) ==
    [kind |-> "assign", node |-> Node("Assign", "", <<Name(target), Constant(value)>>, 1)]

def_lines(d) == Len(d.decorators) + 1 + Len(d.body)

RECURSIVE lines_of(_)
lines_of(items) ==
    IF items = <<>> THEN 0
    ELSE LET h == Head(items)
         IN (IF h.kind = "def" THEN def_lines(h)
             ELSE IF h.kind = "class" THEN 1 + lines_of(h.methods)
             ELSE 1) + lines_of(Tail(items))

\* The parsed statements of a module or class body that starts on line l.
RECURSIVE parse_items(_, _)
parse_items(items, l) ==
    IF items = <<>> THEN <<>>
    ELSE LET h == Head(items)
             node == IF h.kind = "def"
                     THEN parse_function(h.name, h.decorators, h.args, h.returns, h.body, l)
                     ELSE IF h.kind = "class"
                     THEN ClassDef(h.name, [i \in DOMAIN h.bases |-> SetLine(h.bases[i], l)],
                                   parse_items(h.methods, l + 1))
                     ELSE SetLine(h.node, l)
         IN <<node>> \o parse_items(Tail(items), l + lines_of(<<h>>))

\* ast.parse of a module: one import per line, then the other statements.
parse_module(imports, items) == Module(imports, parse_items(items, Len(imports) + 1))

\* return a + b
S_add == Return(BinOp("Add", Name("a"), Name("b")))
\* return a - b
S_sub == Return(BinOp("Sub", Name("a"), Name("b")))
\* return os.path.join("a", x)
S_os == Return(Call(canonical_ast(<<"os", "path", "join">>), <<Constant("a"), Name("x")>>))
\* return join("a", x)
S_join == Return(Call(Name("join"), <<Constant("a"), Name("x")>>))

arguments(names) ==
    Node("arguments", "", [i \in DOMAIN names |-> Node("arg", names[i], <<>>, 1)], 1)

\* import os
I_os == <<Import(<<"os">>, "")>>
\* import os.path
I_os_path == <<Import(<<"os", "path">>, "")>>
\* from os.path import join
I_join == <<ImportFrom(<<"os", "path">>, "join", "")>>
\* import os, then from os.path import join
I_both == I_os \o I_join

(***************************************************************************)
(* pyff_function on two versions of a function                             *)
(***************************************************************************)
Statements == {S_os, S_join}

\* No docstring, or one of the string constants as the first statement.
Docstrings == {<<>>} \cup {<<Expr(Constant(d))>> : d \in StrValues}

Bodies == UNION {[1..k -> Statements] : k \in 0..MaxBody}

\* The signatures: def f(x), def f(y), def f(x) -> int
Signatures ==
    {<<arguments(<<"x">>), NoneNode>>, <<arguments(<<"y">>), NoneNode>>,
     <<arguments(<<"x">>), Name("int")>>}

\* name, decorators, arguments, return annotation
Headers ==
    {<<n, d, sig[1], sig[2]>> :
        n \in {"f", "g"}, d \in {<<>>, <<Name("d")>>}, sig \in Signatures}

BaseHeader == <<"f", <<>>, arguments(<<"x">>), NoneNode>>

function_of(h, body) == parse_function(h[1], h[2], h[3], h[4], body, 1)

Defaults == [check_typing |-> TRUE, check_docstrings |-> FALSE]

ImportLists == {<<>>, I_os, I_os_path, I_join, I_both}

HeaderPairs == {hh \in Headers \X Headers : hh[1] = BaseHeader \/ hh[2] = BaseHeader}

\* The docstring and statements of the two versions.
BodyPairs == (Docstrings \X Bodies) \X (Docstrings \X Bodies)

versions(hh, bb, oi, ni, opt) ==
    /\ old = FunctionSummary(hh[1][1], function_of(hh[1], bb[1][1] \o bb[1][2]))
    /\ new = FunctionSummary(hh[2][1], function_of(hh[2], bb[2][1] \o bb[2][2]))
    /\ old_imports = extract(oi)
    /\ new_imports = extract(ni)
    /\ options = opt

\* Two versions of a function, one of them with the base header, the import
\* tables empty and any options; or both with the base header, under any two
\* import tables and the default options.
InitFunction ==
    /\ \/ \E hh \in HeaderPairs, bb \in BodyPairs,
             opt \in [check_typing : BOOLEAN, check_docstrings : BOOLEAN] :
             versions(hh, bb, <<>>, <<>>, opt)
       \/ \E bb \in BodyPairs, oi \in ImportLists, ni \in ImportLists :
             versions(<<BaseHeader, BaseHeader>>, bb, oi, ni, Defaults)
    /\ result = None
    /\ pc = "ready"

Call_pyff_function ==
    /\ pc = "ready"
    /\ result' = pyff_function(old, new, old_imports, new_imports,
                               options.check_typing, options.check_docstrings)
    /\ pc' = "pyff_function"
    /\ UNCHANGED <<old, new, old_imports, new_imports, options>>

NextFunction == Call_pyff_function

SpecFunction == InitFunction /\ [][NextFunction]_vars

(***************************************************************************)
(* pyff_module and pyff_functions on two versions of a module              *)
(***************************************************************************)
\* def g(func): return func, and the same with a longer body
G_1 == def_src("g", <<>>, arguments(<<"func">>), NoneNode, <<Return(Name("func"))>>)
G_2 == def_src("g", <<>>, arguments(<<"func">>), NoneNode, <<Expr(Name("func")), Return(Name("func"))>>)

F(name, decorators, body) == def_src(name, decorators, arguments(<<"x">>), NoneNode, body)

TopFunctions ==
    {F("f", <<>>, <<S_os>>), F("f", <<>>, <<S_join>>), F("f", <<>>, <<S_add>>),
     F("f", <<>>, <<S_sub>>), F("f", <<Name("g")>>, <<S_add>>), F("h", <<>>, <<S_add>>)}

\* class MyClass: def m(self): ...
MyClass(body) ==
    class_src("MyClass", <<>>, <<def_src("m", <<>>, arguments(<<"self">>), NoneNode, body)>>)

Optional(S) == {<<>>} \cup {<<x>> : x \in S}

\* The modules: an optional assignment, an optional g, an optional f or h, an
\* optional class, below one of two import lines.
Modules ==
    {parse_module(i, v \o g \o f \o c) :
        i \in {I_os, I_join}, v \in Optional({assign_src("VALUE", "a")}),
        g \in Optional({G_1, G_2}), f \in Optional(TopFunctions),
        c \in Optional({MyClass(<<S_add>>), MyClass(<<S_sub>>)})}

Init ==
    /\ old \in Modules
    /\ new \in Modules
    /\ old_imports = EmptyDict
    /\ new_imports = EmptyDict
    /\ options = Defaults
    /\ result = None
    /\ pc = "ready"

Call_pyff_module ==
    /\ pc = "ready"
    /\ old_imports' = extract(old.imports)
    /\ new_imports' = extract(new.imports)
    /\ result' = pyff_module(old, new)
    /\ pc' = "pyff_module"
    /\ UNCHANGED <<old, new, options>>

\* pyff_functions on the two module bodies, as pyff_module calls it.
Call_pyff_functions ==
    /\ pc = "ready"
    /\ old_imports' = extract(old.imports)
    /\ new_imports' = extract(new.imports)
    /\ result' = pyff_functions(old.body, new.body, extract(old.imports), extract(new.imports))
    /\ pc' = "pyff_functions"
    /\ UNCHANGED <<old, new, options>>

Next == Call_pyff_module \/ Call_pyff_functions

Spec == Init /\ [][Next]_vars

(***************************************************************************)
(* pyff_statement on two statements                                        *)
(***************************************************************************)
\* from os import path
I_path == <<ImportFrom(<<"os">>, "path", "")>>

\* The dotted references a statement is built from.
Chains ==
    {<<"os">>, <<"os", "path">>, <<"os", "path", "join">>, <<"path", "join">>,
     <<"join">>, <<"x">>}

\* return c1(c2)
statement_of(c1, c2) == Return(Call(canonical_ast(c1), <<canonical_ast(c2)>>))

StatementPool == {statement_of(c1, c2) : c1 \in Chains, c2 \in Chains}

StatementImports == {<<>>, I_os, I_os_path, I_join, I_both, I_path}

\* Two statements, the new one on the same line or on the next, each under an
\* import table.
InitStatement ==
    /\ old \in StatementPool
    /\ new \in {SetLine(st, l) : st \in StatementPool, l \in 1..2}
    /\ old_imports \in {extract(i) : i \in StatementImports}
    /\ new_imports \in {extract(i) : i \in StatementImports}
    /\ options = Defaults
    /\ result = None
    /\ pc = "ready"

Call_pyff_statement ==
    /\ pc = "ready"
    /\ result' = pyff_statement(old, new, old_imports, new_imports)
    /\ pc' = "pyff_statement"
    /\ UNCHANGED <<old, new, old_imports, new_imports, options>>

NextStatement == Call_pyff_statement

SpecStatement == InitStatement /\ [][NextStatement]_vars

(***************************************************************************)
(* A StatementPyfference and the changes added to it                       *)
(***************************************************************************)
\* References of join / path changed to os.path.join / os.path
Changes ==
    {ExternalNameUsageChange({SingleExternalNameUsageChange(<<o>>, n)}) :
        o \in {"join", "path"}, n \in {<<"os", "path", "join">>, <<"os", "path">>}}

InitPyfference ==
    /\ old = None
    /\ new = None
    /\ old_imports = EmptyDict
    /\ new_imports = EmptyDict
    /\ options = Defaults
    /\ result = StatementPyfference
    /\ pc = "ready"

Call_add_semantically_relevant_change ==
    /\ \E change \in Changes : result' = add_semantically_relevant_change(result, change)
    /\ pc' = "add_semantically_relevant_change"
    /\ UNCHANGED <<old, new, old_imports, new_imports, options>>

Call_add_semantically_irrelevant_change ==
    /\ \E change \in Changes : result' = add_irrelevant_change(result, change)
    /\ pc' = "add_semantically_irrelevant_change"
    /\ UNCHANGED <<old, new, old_imports, new_imports, options>>

NextPyfference ==
    \/ Call_add_semantically_relevant_change
    \/ Call_add_semantically_irrelevant_change

SpecPyfference == InitPyfference /\ [][NextPyfference]_vars

(***************************************************************************)
(* pyff_function called again on the same two FunctionSummary objects       *)
(***************************************************************************)
\* The most calls made on one pair of versions.
MaxCalls == 2

\* A function node whose own body list and statements are what the call
\* worked on: the body with the docstring popped, each statement fully
\* qualified.
node_rewritten_in_place(node, body_copy, statement_copies) ==
    [node EXCEPT !.body = statement_copies]

\* A function node after pyff_function returned. The docstring is popped from
\* body_copy, which is list(node.body), and FullyQualifyNames visits
\* statement_copies, each a copy.deepcopy of a statement; the extractors and
\* get_docstring only read. The node keeps its body list and its statements.
node_after_call(node, body_copy, statement_copies) == node

\* Two versions with the base header, under any two import tables; result is
\* the sequence of what the calls returned.
InitRepeated ==
    /\ \E bb \in BodyPairs, oi \in ImportLists, ni \in ImportLists :
           versions(<<BaseHeader, BaseHeader>>, bb, oi, ni, Defaults)
    /\ result = <<>>
    /\ pc = "ready"

Call_pyff_function_repeated ==
    /\ Len(result) < MaxCalls
    /\ result' = Append(result, pyff_function(old, new, old_imports, new_imports,
                                              options.check_typing, options.check_docstrings))
    /\ old' = [old EXCEPT !.node =
                  node_after_call(old.node, walked_body(old.node, options.check_docstrings),
                      [i \in DOMAIN walked_body(old.node, options.check_docstrings) |->
                          FQ_visit(walked_body(old.node, options.check_docstrings)[i],
                                   FullyQualifyNames, old_imports).node])]
    /\ new' = [new EXCEPT !.node =
                  node_after_call(new.node, walked_body(new.node, options.check_docstrings),
                      [i \in DOMAIN walked_body(new.node, options.check_docstrings) |->
                          FQ_visit(walked_body(new.node, options.check_docstrings)[i],
                                   FullyQualifyNames, new_imports).node])]
    /\ pc' = "pyff_function"
    /\ UNCHANGED <<old_imports, new_imports, options>>

NextRepeated == Call_pyff_function_repeated

SpecRepeated == InitRepeated /\ [][NextRepeated]_vars

(***************************************************************************)
(* pyff_function_code on two snippets of code                              *)
(***************************************************************************)
\* The most top-level definitions a snippet holds.
MaxSnippet == 2

\* def f(x): return a + b / return a - b, def g(func): return func, a class
SnippetItems == {F("f", <<>>, <<S_add>>), F("f", <<>>, <<S_sub>>), G_1, MyClass(<<S_add>>)}

Snippets ==
    {parse_module(<<>>, items) : items \in UNION {[1..k -> SnippetItems] : k \in 0..MaxSnippet}}

InitCode ==
    /\ old \in Snippets
    /\ new \in Snippets
    /\ old_imports = EmptyDict
    /\ new_imports = EmptyDict
    /\ options = Defaults
    /\ result = None
    /\ pc = "ready"

Call_pyff_function_code ==
    /\ pc = "ready"
    /\ result' = pyff_function_code(old.body, new.body, old_imports, new_imports)
    /\ pc' = "pyff_function_code"
    /\ UNCHANGED <<old, new, old_imports, new_imports, options>>

NextCode == Call_pyff_function_code

SpecCode == InitCode /\ [][NextCode]_vars

(***************************************************************************)
(* The `pyff` command (pyff/entrypoints.py)                                *)
(*                                                                         *)
(* A path is a file with its content or a directory with its .py files;    *)
(* a file of a directory is named by its path relative to the directory,   *)
(* a sequence of components.                                               *)
(***************************************************************************)
\* sys.exit(status)
sys_exit(status) == [tag |-> "exit", status |-> status]

\* old.rglob("**/*.py") if recursive, old.glob("*.py") otherwise, each path
\* relative to the directory; [old] relative to old for a file.
files_relative(path, recursive) ==
    IF path.kind = "dir"
    THEN {f \in DOMAIN path.files : recursive \/ Len(f) = 1}
    ELSE {<<".">>}

\* The end of pyff: `changed` is set by a file of one side that the other
\* side has not; the files of both sides are logged and nothing else.
exit_changed(old_files_relative, new_files_relative) ==
    IF old_files_relative # new_files_relative THEN sys_exit(1) ELSE sys_exit(0)

\* pyff(old, new, recursive, debug)
pyff(old_path, new_path, recursive) ==
    IF \/ old_path.kind = "dir" /\ new_path.kind = "dir"
       \/ old_path.kind = "file" /\ new_path.kind = "file"
    THEN exit_changed(files_relative(old_path, recursive),
                      files_relative(new_path, recursive))
    ELSE sys_exit(1)

\* def f(x): return a + b  and  def f(x): return a - b
Contents ==
    {parse_module(<<>>, <<F("f", <<>>, <<body>>)>>) : body \in {S_add, S_sub}}

FileNames == {<<"a.py">>, <<"sub", "b.py">>}

Paths ==
    {[kind |-> "file", content |-> content] : content \in Contents}
    \cup {[kind |-> "dir", files |-> files] :
              files \in UNION {[names -> Contents] : names \in SUBSET FileNames}}

InitCLI ==
    /\ old \in Paths
    /\ new \in Paths
    /\ old_imports = EmptyDict
    /\ new_imports = EmptyDict
    /\ options \in [recursive : BOOLEAN, debug : BOOLEAN]
    /\ result = None
    /\ pc = "ready"

Call_pyff ==
    /\ pc = "ready"
    /\ result' = pyff(old, new, options.recursive)
    /\ pc' = "pyff"
    /\ UNCHANGED <<old, new, old_imports, new_imports, options>>

NextCLI == Call_pyff

SpecCLI == InitCLI /\ [][NextCLI]_vars

(***************************************************************************)
(* What the claims speak of                                                *)
(***************************************************************************)
\* The keys of one of the three mappings of a FunctionsPyfference, a None
\* result counting as empty.
keys_of(r, field) == IF r = None THEN {} ELSE DOMAIN r[field]

\* The names of the functions a body defines at its top level.
defined_names(body) ==
    {body[i].name : i \in {j \in DOMAIN body : body[j].kind = "FunctionDef"}}

\* The definition of function f in a body that defines it once.
definition_of(body, f) ==
    body[CHOOSE i \in DOMAIN body : body[i].kind = "FunctionDef" /\ body[i].name = f]

shapes(nodes) == [i \in DOMAIN nodes |-> StripLines(nodes[i])]

\* A statement of a module or class body with the source positions left out.
RECURSIVE shape(_)
shape(item) ==
    IF item.kind = "FunctionDef"
    THEN [kind |-> "FunctionDef", name |-> item.name,
          decorator_list |-> shapes(item.decorator_list), args |-> StripLines(item.args),
          returns |-> StripLines(item.returns), body |-> shapes(item.body)]
    ELSE IF item.kind = "ClassDef"
    THEN [kind |-> "ClassDef", name |-> item.name, bases |-> shapes(item.bases),
          body |-> [i \in DOMAIN item.body |-> shape(item.body[i])]]
    ELSE StripLines(item)

\* The identifiers of the Name nodes of a statement.
RECURSIVE names_in(_)
names_in(node) ==
    (IF node.kind = "Name" THEN {node.id} ELSE {})
        \cup UNION {names_in(node.kids[i]) : i \in DOMAIN node.kids}

\* The first statement is an expression statement of a string constant.
has_docstring_statement(node) ==
    /\ node.body # <<>>
    /\ node.body[1].kind = "Expr"
    /\ node.body[1].kids[1].kind = "Constant"
    /\ node.body[1].kids[1].id \in StrValues

statements_after_docstring(node) ==
    shapes(IF has_docstring_statement(node) THEN Tail(node.body) ELSE node.body)

\* Two versions of a function that differ in nothing but the docstring.
differ_only_in_docstring(o, n) ==
    /\ o.name = n.name
    /\ shapes(o.decorator_list) = shapes(n.decorator_list)
    /\ StripLines(o.args) = StripLines(n.args)
    /\ StripLines(o.returns) = StripLines(n.returns)
    /\ statements_after_docstring(o) = statements_after_docstring(n)

\* Two module bodies that are the same but for their statement at position k.
same_but_at(old_body, new_body, k) ==
    /\ Len(old_body) = Len(new_body)
    /\ k \in DOMAIN old_body
    /\ \A i \in DOMAIN old_body \ {k} : shape(old_body[i]) = shape(new_body[i])

\* Position k holds two versions of one function that differ only in a
\* statement of the body, no name of which is imported.
changed_body_at(o, n, k) ==
    /\ o.imports = n.imports
    /\ same_but_at(o.body, n.body, k)
    /\ o.body[k].kind = "FunctionDef" /\ n.body[k].kind = "FunctionDef"
    /\ shape([o.body[k] EXCEPT !.body = <<>>]) = shape([n.body[k] EXCEPT !.body = <<>>])
    /\ Len(o.body[k].body) = Len(n.body[k].body)
    /\ \E i \in DOMAIN o.body[k].body :
          StripLines(o.body[k].body[i]) # StripLines(n.body[k].body[i])
    /\ \A i \in DOMAIN o.body[k].body :
          StripLines(o.body[k].body[i]) # StripLines(n.body[k].body[i]) =>
              (names_in(o.body[k].body[i]) \cup names_in(n.body[k].body[i]))
                  \cap DOMAIN extract(o.imports) = {}

\* The two modules differ only inside the definition of g, at position k.
differ_only_inside(o, n, k, g) ==
    /\ o.imports = n.imports
    /\ same_but_at(o.body, n.body, k)
    /\ o.body[k].kind = "FunctionDef" /\ n.body[k].kind = "FunctionDef"
    /\ o.body[k].name = g /\ n.body[k].name = g
    /\ shape(o.body[k]) # shape(n.body[k])

(***************************************************************************)
(* The claims                                                              *)
(***************************************************************************)
\* C1. Identity: pyff_module of a module and itself returns None, whatever
\* imports, classes and functions the module holds.
C1_Identity == (pc = "pyff_module" /\ old = new) => result = None

C1_Witness ==
    /\ pc = "pyff_module" /\ old = new /\ result = None
    /\ old.imports # <<>>
    /\ \E i \in DOMAIN old.body : old.body[i].kind = "ClassDef"
    /\ \E i \in DOMAIN old.body :
          old.body[i].kind = "FunctionDef" /\ old.body[i].decorator_list # <<>>

\* C2. Import-alias equivalence at function level: with "import os" and
\* f returning os.path.join("a", x) on the old side, "from os.path import join"
\* and f returning join("a", x) on the new side, and nothing else different,
\* f is not reported as changed and the functions diff of the module is None.
C2_ImportAliasFunction ==
    (/\ pc = "pyff_module"
     /\ \E v \in Optional({assign_src("VALUE", "a")}), g \in Optional({G_1, G_2}),
           c \in Optional({MyClass(<<S_add>>), MyClass(<<S_sub>>)}) :
           /\ old = parse_module(I_os, v \o g \o <<F("f", <<>>, <<S_os>>)>> \o c)
           /\ new = parse_module(I_join, v \o g \o <<F("f", <<>>, <<S_join>>)>> \o c))
    => (result # None /\ result.functions = None)

\* C3. Import-alias equivalence at statement level: for os.path.join(...)
\* under "import os.path" against join(...) under "from os.path import join",
\* pyff_statement returns a StatementPyfference with no semantically relevant
\* change and at least one semantically irrelevant change.
C3_ImportAliasStatement ==
    (/\ pc = "pyff_statement"
     /\ old_imports = extract(I_os_path)
     /\ new_imports = extract(I_join)
     /\ StripLines(old) = StripLines(statement_of(<<"os", "path", "join">>, <<"x">>))
     /\ StripLines(new) = StripLines(statement_of(<<"join">>, <<"x">>)))
    => (/\ result # None
        /\ result.semantically_relevant = {}
        /\ result.semantically_irrelevant # {})

\* C4. Rename disjointness: when the new module differs from the old one only
\* in the name of one function, pyff_functions reports one changed entry with
\* old_name set to the old name, and nothing new or removed.
C4_RenameDisjointness ==
    \A k \in DOMAIN old.body :
        (/\ pc = "pyff_functions"
         /\ old.imports = new.imports
         /\ same_but_at(old.body, new.body, k)
         /\ old.body[k].kind = "FunctionDef" /\ new.body[k].kind = "FunctionDef"
         /\ old.body[k].name # new.body[k].name
         /\ shape([old.body[k] EXCEPT !.name = ""]) = shape([new.body[k] EXCEPT !.name = ""]))
        => (/\ result # None
            /\ DOMAIN result.new = {} /\ DOMAIN result.removed = {}
            /\ DOMAIN result.changed = {new.body[k].name}
            /\ result.changed[new.body[k].name].old_name = <<old.body[k].name>>)

\* C5. Docstring policy: with check_docstrings false, two versions of a
\* function that differ only in the docstring (added, removed, changed, or
\* empty on one side), under one import table, give None.
C5_DocstringPolicy ==
    (/\ pc = "pyff_function"
     /\ ~options.check_docstrings
     /\ old_imports = new_imports
     /\ differ_only_in_docstring(old.node, new.node))
    => result = None

\* C6. Anti-symmetry: the names pyff_functions reports as new from old to new
\* are the names it reports as removed from new to old.
C6_AntiSymmetry ==
    pc = "pyff_functions" =>
        keys_of(result, "new")
            = keys_of(pyff_functions(new.body, old.body, new_imports, old_imports), "removed")

C6_Witness ==
    /\ pc = "pyff_functions"
    /\ keys_of(result, "new") # {}
    /\ defined_names(old.body) \cap defined_names(new.body) # {}

\* The first clauses of C7: new, removed and changed are pairwise disjoint,
\* new is the names defined on the new side only, removed those defined on the
\* old side only, and changed holds only names defined on both sides.
partition_of_names ==
    LET olds == defined_names(old.body)
        news == defined_names(new.body)
    IN /\ keys_of(result, "new") \cap keys_of(result, "removed") = {}
       /\ keys_of(result, "new") \cap keys_of(result, "changed") = {}
       /\ keys_of(result, "removed") \cap keys_of(result, "changed") = {}
       /\ keys_of(result, "new") = news \ olds
       /\ keys_of(result, "removed") = olds \ news
       /\ keys_of(result, "changed") \subseteq olds \cap news

\* The functions defined the same way on both sides.
identical_functions ==
    {f \in defined_names(old.body) \cap defined_names(new.body) :
        shape(definition_of(old.body, f)) = shape(definition_of(new.body, f))}

C8_ChangedBody ==
    \A k \in DOMAIN old.body :
        (pc = "pyff_module" /\ changed_body_at(old, new, k)) =>
            /\ result # None
            /\ result.functions # None
            /\ DOMAIN result.functions.changed = {old.body[k].name}
            /\ result.functions.changed[old.body[k].name].implementation # {}
            /\ DOMAIN result.functions.new = {}
            /\ DOMAIN result.functions.removed = {}
            /\ result.classes = None
            /\ result.imports = None

C8_Witness ==
    /\ pc = "pyff_module"
    /\ \E k \in DOMAIN old.body :
          /\ changed_body_at(old, new, k)
          /\ old.body[k].body = <<SetLine(S_add, old.body[k].lineno + 1)>>
          /\ new.body[k].body = <<SetLine(S_sub, old.body[k].lineno + 1)>>
    /\ \E i \in DOMAIN old.body : old.body[i].kind = "ClassDef"
    /\ result # None

\* C9. Decorator change: when the decorator lists of the two versions are not
\* structurally equal, pyff_function returns a FunctionPyfference whose
\* implementation set holds a FunctionImplementationChange.
C9_DecoratorChange ==
    (/\ pc = "pyff_function"
     /\ shapes(old.node.decorator_list) # shapes(new.node.decorator_list))
    => (result # None /\ FunctionImplementationChange \in result.implementation)

\* Only the decorators differ: same signature, same body.
C9_Witness ==
    /\ pc = "pyff_function"
    /\ shapes(old.node.decorator_list) # shapes(new.node.decorator_list)
    /\ StripLines(old.node.args) = StripLines(new.node.args)
    /\ StripLines(old.node.returns) = StripLines(new.node.returns)
    /\ shapes(old.node.body) = shapes(new.node.body)
    /\ old.node.body # <<>>
    /\ result # None /\ result.implementation = {FunctionImplementationChange}

\* C10. Locality: when two modules differ only inside the definition of one
\* function g, no other function is reported as changed, not even one that is
\* decorated with g.
C10_Locality ==
    \A k \in DOMAIN old.body :
        (pc = "pyff_functions" /\ differ_only_inside(old, new, k, "g")) =>
            keys_of(result, "changed") \subseteq {"g"}

C10_Witness ==
    /\ pc = "pyff_functions"
    /\ \E k \in DOMAIN old.body : differ_only_inside(old, new, k, "g")
    /\ \E i \in DOMAIN old.body :
          /\ old.body[i].kind = "FunctionDef"
          /\ old.body[i].name = "f"
          /\ old.body[i].decorator_list # <<>>
          /\ old.body[i].lineno # new.body[i].lineno
    /\ keys_of(result, "changed") = {"g"}

\* The new body is the old one with one assignment added in front of it.
added_variable(o, n) ==
    /\ o.imports = n.imports
    /\ Len(n.body) = Len(o.body) + 1
    /\ n.body[1].kind = "Assign"
    /\ \A i \in DOMAIN o.body : shape(o.body[i]) = shape(n.body[i + 1])

\* C11. Added module variable: when the new module is the old one with a
\* module-level assignment added and nothing else different, pyff_module
\* returns a ModulePyfference whose functions, classes and imports are None.
C11_AddedVariable ==
    (pc = "pyff_module" /\ added_variable(old, new)) =>
        /\ result # None
        /\ result.functions = None
        /\ result.classes = None
        /\ result.imports = None

\* The two modules differ only in the statements of method j of the class at
\* position k, a class of both sides.
changed_method_at(o, n, k, j) ==
    /\ o.imports = n.imports
    /\ same_but_at(o.body, n.body, k)
    /\ o.body[k].kind = "ClassDef" /\ n.body[k].kind = "ClassDef"
    /\ o.body[k].name = n.body[k].name
    /\ shapes(o.body[k].bases) = shapes(n.body[k].bases)
    /\ same_but_at(o.body[k].body, n.body[k].body, j)
    /\ o.body[k].body[j].kind = "FunctionDef" /\ n.body[k].body[j].kind = "FunctionDef"
    /\ shape([o.body[k].body[j] EXCEPT !.body = <<>>])
           = shape([n.body[k].body[j] EXCEPT !.body = <<>>])
    /\ ~has_docstring_statement(o.body[k].body[j])
    /\ ~has_docstring_statement(n.body[k].body[j])
    /\ shapes(o.body[k].body[j].body) # shapes(n.body[k].body[j].body)

\* C12. Changed class method: when two modules differ only in the body of one
\* method of a class of both sides, pyff_module reports that class as the only
\* entry of classes.changed, that method as the only entry of its
\* methods.changed with no new or removed method, and functions is None.
C12_ChangedClassMethod ==
    \A k \in DOMAIN old.body :
        (/\ pc = "pyff_module"
         /\ old.body[k].kind = "ClassDef"
         /\ \E j \in DOMAIN old.body[k].body : changed_method_at(old, new, k, j))
        => \A j \in {i \in DOMAIN old.body[k].body : changed_method_at(old, new, k, i)} :
              /\ result # None
              /\ result.classes # None
              /\ DOMAIN result.classes.changed = {old.body[k].name}
              /\ result.classes.changed[old.body[k].name].methods # None
              /\ DOMAIN result.classes.changed[old.body[k].name].methods.changed
                     = {old.body[k].body[j].name}
              /\ DOMAIN result.classes.changed[old.body[k].name].methods.new = {}
              /\ DOMAIN result.classes.changed[old.body[k].name].methods.removed = {}
              /\ result.functions = None

\* A method changed in a module that also has a top-level function.
C12_Witness ==
    /\ pc = "pyff_module"
    /\ \E k \in DOMAIN old.body :
          /\ old.body[k].kind = "ClassDef"
          /\ changed_method_at(old, new, k, 1)
    /\ \E i \in DOMAIN old.body : old.body[i].kind = "FunctionDef"
    /\ result # None /\ result.functions = None

\* A sub-diff that is None or holds nothing.
empty_imports(d) == d = None \/ (d.removed_imports = {} /\ d.new_imports = {})
empty_classes(d) == d = None \/ (DOMAIN d.changed = {} /\ d.new = {} /\ d.removed = {})
empty_functions(d) ==
    d = None \/ (DOMAIN d.changed = {} /\ DOMAIN d.new = {} /\ DOMAIN d.removed = {})

C14_InputShapeError ==
    (/\ pc = "pyff_function_code"
     /\ \/ Cardinality({i \in DOMAIN old.body : old.body[i].kind = "FunctionDef"}) # 1
        \/ Cardinality({i \in DOMAIN new.body : new.body[i].kind = "FunctionDef"}) # 1)
    => result.tag = "ValueError"

\* C15. With two files the command exits with status 1 if the engine returns a
\* diff for them and with status 0 if it returns none; with two directories a
\* file of both sides for which the engine returns a diff makes the status 1.
C15_ExitStatus ==
    pc = "pyff" =>
        /\ (old.kind = "file" /\ new.kind = "file") =>
               result.status = (IF pyff_module(old.content, new.content) # None THEN 1 ELSE 0)
        /\ (old.kind = "dir" /\ new.kind = "dir") =>
               \A f \in files_relative(old, options.recursive)
                          \cap files_relative(new, options.recursive) :
                   pyff_module(old.files[f], new.files[f]) # None => result.status = 1

\* C16. When one of OLD and NEW is a file and the other a directory the command
\* exits with status 2.
C16_UsageError ==
    (pc = "pyff" /\ old.kind # new.kind) => result.status = 2

\* C17. A StatementPyfference is semantically different iff it has a relevant
\* change or no change at all, and specific iff it has a change of either
\* kind: with irrelevant changes only it is specific and not semantically
\* different, with no change it is semantically different and not specific.
C17_Predicates ==
    /\ semantically_different(result) <=>
           \/ result.semantically_relevant # {}
           \/ result.semantically_relevant = {} /\ result.semantically_irrelevant = {}
    /\ is_specific(result) <=>
           result.semantically_relevant # {} \/ result.semantically_irrelevant # {}
    /\ (result.semantically_relevant = {} /\ result.semantically_irrelevant # {}) =>
           is_specific(result) /\ ~semantically_different(result)
    /\ (result.semantically_relevant = {} /\ result.semantically_irrelevant = {}) =>
           semantically_different(result) /\ ~is_specific(result)

C17_Witness ==
    /\ pc = "add_semantically_irrelevant_change"
    /\ result.semantically_relevant = {}
    /\ Cardinality(result.semantically_irrelevant) = 2
    /\ is_specific(result)
    /\ ~semantically_different(result)

\* Two statements whose dumps differ, whose fully qualified dumps are the same
\* and for which no substitution of one side is a reference of the other.
no_cross_match(old_st, new_st, fq_old, fq_new) ==
    /\ dump(old_st) # dump(new_st)
    /\ dump(fq_old.node) = dump(fq_new.node)
    /\ cross_matches(fq_old, fq_new) = {}

\* C18. When two versions of a function have the same header and equally long
\* bodies whose statements are pairwise identical or differ in the raw dump
\* only, with no cross-match, pyff_function records no implementation change
\* for a statement: what it returns holds no FunctionImplementationChange and
\* no StatementChange.
C18_NoReportableDifference ==
    LET old_body == walked_body(old.node, options.check_docstrings)
        new_body == walked_body(new.node, options.check_docstrings)
    IN (/\ pc = "pyff_function"
        /\ old.name = new.name
        /\ shapes(old.node.decorator_list) = shapes(new.node.decorator_list)
        /\ StripLines(old.node.args) = StripLines(new.node.args)
        /\ StripLines(old.node.returns) = StripLines(new.node.returns)
        /\ Len(old_body) = Len(new_body)
        /\ \A i \in DOMAIN old_body :
               \/ dump(old_body[i]) = dump(new_body[i])
               \/ no_cross_match(old_body[i], new_body[i],
                                 FQ_visit(old_body[i], FullyQualifyNames, old_imports),
                                 FQ_visit(new_body[i], FullyQualifyNames, new_imports))
        /\ \E i \in DOMAIN old_body : dump(old_body[i]) # dump(new_body[i]))
       => (result # None =>
               \A c \in result.implementation : c.tag = "ExternalUsageChange")

\* C19. When the two bodies are equally long and pyff_statement returns
\* specific, mutually different differences for k >= 2 of their positions, the
\* implementation set of what pyff_function returns holds k StatementChange
\* records.
C19_StatementChanges ==
    LET old_body == walked_body(old.node, options.check_docstrings)
        new_body == walked_body(new.node, options.check_docstrings)
        changes == [i \in DOMAIN old_body \cap DOMAIN new_body |->
                       pyff_statement(old_body[i], new_body[i], old_imports, new_imports)]
        specific == {i \in DOMAIN changes : changes[i] # None /\ is_specific(changes[i])}
    IN (/\ pc = "pyff_function"
        /\ Len(old_body) = Len(new_body)
        /\ Cardinality(specific) >= 2
        /\ \A i, j \in specific : i # j => changes[i] # changes[j])
       => /\ result # None
          /\ Cardinality({c \in result.implementation : c.tag = "StatementChange"})
                 = Cardinality(specific)

\* C20. When the bodies the walk receives (the docstring dropped where
\* pyff_function drops it) have different lengths, pyff_function returns a
\* FunctionPyfference that holds a FunctionImplementationChange, and the
\* statements are paired by position over the common prefix: a StatementChange
\* is held iff pyff_statement is specific for two statements at one position of
\* the prefix, and it is the one of the first such position.
C20_BodyWalk ==
    LET old_body == walked_body(old.node, options.check_docstrings)
        new_body == walked_body(new.node, options.check_docstrings)
        changes == [i \in DOMAIN old_body \cap DOMAIN new_body |->
                       pyff_statement(old_body[i], new_body[i], old_imports, new_imports)]
        specific == {i \in DOMAIN changes : changes[i] # None /\ is_specific(changes[i])}
    IN (pc = "pyff_function" /\ Len(old_body) # Len(new_body)) =>
          /\ result # None
          /\ FunctionImplementationChange \in result.implementation
          /\ {c \in result.implementation : c.tag = "StatementChange"}
                 = {StatementChange(changes[i]) :
                        i \in {j \in specific : \A k \in specific : j <= k}}

\* A longer new body whose first statement differs from the old one's by the
\* name it uses: both changes are held.
C20_Witness ==
    /\ pc = "pyff_function"
    /\ Len(walked_body(old.node, options.check_docstrings)) = 1
    /\ Len(walked_body(new.node, options.check_docstrings)) = 2
    /\ result # None
    /\ FunctionImplementationChange \in result.implementation
    /\ \E c \in result.implementation : c.tag = "StatementChange"

\* C21. With check_typing, two versions whose return annotations or argument
\* nodes differ in structure give a FunctionPyfference that holds a
\* FunctionImplementationChange; without check_typing, two versions that
\* differ in the return annotation or the argument nodes and in nothing else
\* give None.
C21_CheckTyping ==
    (/\ pc = "pyff_function"
     /\ \/ StripLines(old.node.args) # StripLines(new.node.args)
        \/ StripLines(old.node.returns) # StripLines(new.node.returns))
    => IF options.check_typing
       THEN result # None /\ FunctionImplementationChange \in result.implementation
       ELSE (/\ old.name = new.name
             /\ shapes(old.node.decorator_list) = shapes(new.node.decorator_list)
             /\ shapes(old.node.body) = shapes(new.node.body)
             /\ old_imports = new_imports)
            => result = None

\* def f(x) against def f(y) or def f(x) -> int, one body, typing not checked.
C21_Witness ==
    /\ pc = "pyff_function"
    /\ ~options.check_typing
    /\ \/ StripLines(old.node.args) # StripLines(new.node.args)
       \/ StripLines(old.node.returns) # StripLines(new.node.returns)
    /\ old.name = new.name
    /\ shapes(old.node.decorator_list) = shapes(new.node.decorator_list)
    /\ shapes(old.node.body) = shapes(new.node.body)
    /\ old.node.body # <<>>
    /\ result = None

\* C22. compare_import_usage returns None iff the imported names used in the
\* old body and in the new body are the same; otherwise it returns an
\* ExternalUsageChange whose gone is the names used in old only and whose
\* appeared is the names used in new only, the two disjoint and not both
\* empty, and that record is the one ExternalUsageChange of the implementation
\* set pyff_function returns.
C22_ImportUsage ==
    LET first == used_names(old.node, old_imports)
        second == used_names(new.node, new_imports)
        usage == compare_import_usage(old.node, new.node, old_imports, new_imports)
        recorded == IF result = None THEN {}
                    ELSE {c \in result.implementation : c.tag = "ExternalUsageChange"}
    IN pc = "pyff_function" =>
          /\ usage = None <=> first = second
          /\ usage = None => recorded = {}
          /\ usage # None =>
                 /\ usage.tag = "ExternalUsageChange"
                 /\ usage.gone = first \ second
                 /\ usage.appeared = second \ first
                 /\ usage.gone \cap usage.appeared = {}
                 /\ usage.gone # {} \/ usage.appeared # {}
                 /\ recorded = {usage}

\* The old version uses a name the new one does not, and nothing appears.
C22_Witness ==
    /\ pc = "pyff_function"
    /\ used_names(old.node, old_imports) # {}
    /\ used_names(new.node, new_imports) = {}
    /\ result # None
    /\ \E c \in result.implementation :
           c.tag = "ExternalUsageChange" /\ c.gone # {} /\ c.appeared = {}

C24_NoVacuousRewrite ==
    (pc = "pyff_statement" /\ result # None) =>
        \A c \in result.semantically_irrelevant :
            \A single \in c.changes : single.old # single.new

\* C25. pyff_statement returns None iff the dumps of the two statements are
\* the same; a StatementPyfference it returns has no relevant change and at
\* most one irrelevant change, so that it is semantically different exactly
\* when it is not specific.
C25_StatementResult ==
    pc = "pyff_statement" =>
        /\ result = None <=> StripLines(old) = StripLines(new)
        /\ result # None =>
               /\ result.semantically_relevant = {}
               /\ Cardinality(result.semantically_irrelevant) <= 1
               /\ semantically_different(result) <=> ~is_specific(result)

\* Two statements on different lines that differ in a name the import tables
\* explain: one irrelevant change, not semantically different.
C25_Witness ==
    /\ pc = "pyff_statement"
    /\ old.lineno # new.lineno
    /\ result # None
    /\ Cardinality(result.semantically_irrelevant) = 1
    /\ is_specific(result)
    /\ ~semantically_different(result)

====
